---- MODULE Spec2Model ----
(***************************************************************************)
(* Reconciliation of MXRoute forwarders against Zoho mailboxes             *)
(* (src/main.py, src/zoho.py, src/mxroute.py).                             *)
(*                                                                         *)
(* Strings are sequences of one-character strings, so that split, replace  *)
(* and the substring test are computed as Python computes them.            *)
(***************************************************************************)
EXTENDS Integers, Sequences, FiniteSets, TLC

(* ------------------------------ bounds --------------------------------- *)
MaxUsers == 2
MaxGroups == 1
MaxForwarders == 2

(* --------------------------- string helpers ---------------------------- *)

\* the literal '@zoho.' of main.py
Marker == <<"@", "z", "o", "h", "o", ".">>

At == <<"@">>

\* Python: sub in s
Contains(s, sub) ==
  \E i \in 1..(Len(s) - Len(sub) + 1) : SubSeq(s, i, i + Len(sub) - 1) = sub

\* Python: '@' in s
HasAt(s) == \E i \in 1..Len(s) : s[i] = "@"

\* index of the first '@' of s (s contains one)
FirstAt(s) == CHOOSE i \in 1..Len(s) : s[i] = "@" /\ \A j \in 1..(i - 1) : s[j] # "@"

\* Python: s.split('@', 1), for s containing '@'
SplitOnce(s) ==
  LET i == FirstAt(s) IN <<SubSeq(s, 1, i - 1), SubSeq(s, i + 1, Len(s))>>

\* Python: f'{user}@zoho.{domain}'
Translate(user, domain) == user \o Marker \o domain

\* Python: s.replace(old, new): every non-overlapping occurrence, left to right
RECURSIVE Replace(_, _, _)
Replace(s, old, new) ==
  IF Len(s) < Len(old) THEN s
  ELSE IF SubSeq(s, 1, Len(old)) = old
       THEN new \o Replace(SubSeq(s, Len(old) + 1, Len(s)), old, new)
       ELSE <<s[1]>> \o Replace(Tail(s), old, new)

\* Python: s.split('@'): the list of all parts, empty parts included
RECURSIVE SplitAll(_)
SplitAll(s) ==
  IF ~HasAt(s) THEN <<s>>
  ELSE LET i == FirstAt(s)
       IN <<SubSeq(s, 1, i - 1)>> \o SplitAll(SubSeq(s, i + 1, Len(s)))

\* Python: c.lower() on one character
LowerChar(c) == IF c = "A" THEN "a" ELSE IF c = "B" THEN "b" ELSE c

\* Python: s.lower()
Lower(s) == [i \in 1..Len(s) |-> LowerChar(s[i])]

\* Python: s.strip()
RECURSIVE Strip(_)
Strip(s) ==
  IF s = <<>> THEN s
  ELSE IF s[1] = " " THEN Strip(Tail(s))
  ELSE IF s[Len(s)] = " " THEN Strip(SubSeq(s, 1, Len(s) - 1))
  ELSE s

\* zoho.py: the test and normalisation applied to every mailId / emailId
ValidMailId(email) == email # <<>> /\ HasAt(email)

NormalizeAll(raw) == {Lower(Strip(e)) : e \in {r \in raw : ValidMailId(r)}}

(* ----------------------- the remote data considered -------------------- *)

DomainPool == {<<"x">>, <<"y">>}

\* mailIds the accounts endpoint may return
UserPool ==
  { <<"a", "@", "x">>,
    <<"B", "@", "x", " ">>,
    <<"a", "@", "z", "o", "h", "o", ".", "x">>,
    <<"a", "x">>,
    <<"@", "x">> }

\* emailIds / aliases the groups endpoint may return
GroupPool ==
  { <<"b", "@", "x">>,
    <<"a", "@", "y">> }

\* forwarders user@domain -> email the Forwarding Host may hold
ForwarderPool ==
  { [domain |-> <<"x">>, user |-> <<"a">>, email |-> <<"a", "@", "z", "o", "h", "o", ".", "x">>],
    [domain |-> <<"x">>, user |-> <<"b">>, email |-> <<"b", "@", "z", "o", "h", "o", ".", "x">>],
    [domain |-> <<"x">>, user |-> <<"a">>, email |-> <<"a", "@", "y">>],
    [domain |-> <<"y">>, user |-> <<"a">>, email |-> <<"a", "@", "z", "o", "h", "o", ".", "x", "@", "y">>],
    [domain |-> <<"x">>, user |-> <<"b">>, email |-> <<"b", "@", "z", "o", "h", "o", ".">>] }

RequiredVars == {"CLIENT_ID", "CLIENT_SECRET", "ORGANIZATION_ID", "USER_ID", "PASSWORD", "SERVER"}

\* the environments considered: every variable set, or exactly one of them unset or empty
Environments == {RequiredVars} \cup {RequiredVars \ {v} : v \in RequiredVars}

\* a forwarder user@domain exists at most once on the host
UniqueKeys(fs) ==
  \A r1 \in fs : \A r2 \in fs : (r1.domain = r2.domain /\ r1.user = r2.user) => r1 = r2

(* ------------------------------- state --------------------------------- *)
VARIABLES
  zohoUsers,            \* remote: mailIds of the organization's accounts
  zohoGroups,           \* remote: emailIds and aliases of the groups
  hostDomains,          \* remote: domains of the MXRoute account
  hostForwarders,       \* remote: forwarders of the MXRoute account
  pc,                   \* position of main()
  second_run,           \* FALSE in the first invocation, TRUE in the one after it
  missing_vars,         \* validate_environment: missing_vars
  user_emails,          \* get_zoho_emails: user_emails
  zoho_emails,          \* main: zoho_emails
  domains,              \* main: domains
  forwarders,           \* main: forwarders (existing_forwarders of sync_forwarders)
  listed,               \* get_mxroute_info: domains the loop has visited
  expected_forwarders,  \* sync_forwarders: expected_forwarders
  added_count,
  skipped_count,
  removed_count,
  add_done,             \* sync_forwarders: emails the first loop has visited
  remove_done,          \* sync_forwarders: forwarders the second loop has visited
  exit_code,            \* -1 while running
  calls,                \* every call made on a client, in order
  skipped_dests,        \* destinations counted in skipped_count
  synced,               \* sync_forwarders has returned in this invocation
  host0,                \* hostForwarders when the invocation started
  prev                  \* what the previous invocation ended with

vars ==
  <<zohoUsers, zohoGroups, hostDomains, hostForwarders, pc, second_run, missing_vars,
    user_emails, zoho_emails, domains, forwarders, listed, expected_forwarders,
    added_count, skipped_count, removed_count, add_done, remove_done, exit_code,
    calls, skipped_dests, synced, host0, prev>>

remote == <<zohoUsers, zohoGroups, hostDomains>>

NoPrev == [ran |-> FALSE, synced |-> FALSE, failed |-> FALSE, emails |-> {}, domains |-> {}]

Call(op, domain, user, email, src, ok) ==
  [op |-> op, domain |-> domain, user |-> user, email |-> email, src |-> src, ok |-> ok]

ReadCall(op, domain, ok) == Call(op, domain, <<>>, <<>>, <<>>, ok)

Init ==
  /\ zohoUsers \in {s \in SUBSET UserPool : Cardinality(s) <= MaxUsers}
  /\ zohoGroups \in {s \in SUBSET GroupPool : Cardinality(s) <= MaxGroups}
  /\ hostDomains \in SUBSET DomainPool
  /\ hostForwarders \in
       {s \in SUBSET ForwarderPool :
          /\ Cardinality(s) <= MaxForwarders
          /\ UniqueKeys(s)
          /\ \A r \in s : r.domain \in hostDomains}
  /\ pc = "start"
  /\ second_run = FALSE
  /\ missing_vars = {}
  /\ user_emails = {}
  /\ zoho_emails = {}
  /\ domains = {}
  /\ forwarders = {}
  /\ listed = {}
  /\ expected_forwarders = {}
  /\ added_count = 0
  /\ skipped_count = 0
  /\ removed_count = 0
  /\ add_done = {}
  /\ remove_done = {}
  /\ exit_code = -1
  /\ calls = <<>>
  /\ skipped_dests = {}
  /\ synced = FALSE
  /\ host0 = hostForwarders
  /\ prev = NoPrev

(* ------------------------ the Forwarding Host -------------------------- *)

HasKey(fs, domain, user) == \E r \in fs : r.domain = domain /\ r.user = user

\* Python: all([...]) over strings
AllTruthy(strs) == \A i \in 1..Len(strs) : strs[i] # <<>>

\* mxroute.py add_forwarder: the answers the call can give.  The argument
\* check raises before any request; the host refuses a forwarder that exists.
AddOutcomes(fs, domain, user, email) ==
  IF ~AllTruthy(<<domain, user, email>>) \/ ~HasAt(email) THEN {FALSE}
  ELSE IF HasKey(fs, domain, user) THEN {FALSE}
  ELSE BOOLEAN

\* mxroute.py delete_forwarder: the answers the call can give.  The argument
\* check raises before any request; the host refuses a forwarder that is absent.
DeleteOutcomes(fs, domain, user) ==
  IF ~AllTruthy(<<domain, user>>) THEN {FALSE}
  ELSE IF ~HasKey(fs, domain, user) THEN {FALSE}
  ELSE BOOLEAN

HostAdd(fs, domain, user, email) ==
  fs \cup {[domain |-> domain, user |-> user, email |-> email]}

HostDelete(fs, domain, user) ==
  {r \in fs : ~(r.domain = domain /\ r.user = user)}

\* mxroute.py list_forwarders: the values of the answer, the keys dropped
HostList(fs, domain) == {r.email : r \in {q \in fs : q.domain = domain}}

(* ------------------------- decisions of main.py ------------------------ *)

\* the hosted-domain test of create_expected_forwarders left out
ExpectedEligibleAlways(domain, available_domains) == TRUE

\* main.py:134  domain not in available_domains (negated)
ExpectedEligible(domain, available_domains) == domain \in available_domains

\* the hosted-domain test of the add loop left out
AddEligibleAlways(domain, hosted) == TRUE

\* main.py:175  domain not in domains (negated)
AddEligible(domain, hosted) == domain \in hosted

\* the existence test of the add loop left out
NeedsAddAlways(dest, existing_forwarders) == TRUE

\* main.py:178  dest not in existing_forwarders
NeedsAdd(dest, existing_forwarders) == dest \notin existing_forwarders

\* the membership test of the remove loop left out
IsObsoleteByMarkerOnly(forwarder, expected) == Contains(forwarder, Marker)

\* main.py:199  '@zoho.' in forwarder and forwarder not in expected_forwarders
IsObsolete(forwarder, expected) ==
  Contains(forwarder, Marker) /\ forwarder \notin expected

\* the split applied to the destination as it is, the marker not replaced
ReversePartsWithoutReplace(forwarder) == SplitAll(forwarder)

\* main.py:201  forwarder.replace('@zoho.', '@').split('@')
ReverseParts(forwarder) == SplitAll(Replace(forwarder, Marker, At))

\* main.py:202  len(parts) >= 2
PartsOk(parts) == Len(parts) >= 2

\* the early return on an empty mailbox set left out
NoEmailsNever(emails) == FALSE

\* main.py:250  if not zoho_emails
NoEmails(emails) == emails = {}

\* main.py:256  if not domains
NoDomains(hosted) == hosted = {}

\* main.py:84-86  a Zoho failure is re-raised as EmailSyncError, main exits
ZohoFailurePc == "exit"

\* a list_domains failure swallowed, the run going on with no domain
MxFailureSwallowed == "mx_forwarders"

\* main.py:116-118  a list_domains failure is re-raised as EmailSyncError
MxFailurePc == "exit"

\* a failed add leaving the add loop (break instead of continue)
AddFailureBreaks(next) ==
  IF next = "adding" THEN (IF forwarders = {} THEN "summary" ELSE "removing") ELSE next

\* main.py:184-186  a failed add is logged and the loop continues
AfterAddFailure(next) == next

\* main.py:210-212  a failed delete is logged and the loop continues
AfterDeleteFailure(next) == next

\* main.py:120-148
RECURSIVE ExpectedLoop(_, _, _)
ExpectedLoop(todo, available_domains, acc) ==
  IF todo = {} THEN acc
  ELSE LET zoho_email == CHOOSE e \in todo : TRUE
           rest == todo \ {zoho_email}
       IN IF ~HasAt(zoho_email) THEN ExpectedLoop(rest, available_domains, acc)
          ELSE LET p == SplitOnce(zoho_email)
                   dest == Translate(p[1], p[2])
               IN IF ~ExpectedEligible(p[2], available_domains)
                  THEN ExpectedLoop(rest, available_domains, acc)
                  ELSE ExpectedLoop(rest, available_domains, acc \cup {dest})

create_expected_forwarders(emails, available_domains) ==
  ExpectedLoop(emails, available_domains, {})

\* where sync_forwarders goes once a loop has nothing left to visit
AfterAdding(existing) == IF existing = {} THEN "summary" ELSE "removing"

AfterListing(emails, existing) == IF emails = {} THEN AfterAdding(existing) ELSE "adding"

ExitCodeAt(p, code) == IF p = "exit" THEN code ELSE -1

\* the listing loop returning after its first iterations
ListingDoneEarly(visited, hosted) == TRUE

\* main.py:104-114  the listing loop has visited every domain
ListingDone(visited, hosted) == visited = hosted

\* the counter incremented whether or not the call raised
CountedAlways(count, ok) == count + 1

\* main.py:181-186  added_count += 1 is reached only when add_forwarder returns
AddedAfter(count, ok) == IF ok THEN count + 1 ELSE count

\* main.py:207-212  removed_count += 1 is reached only when delete_forwarder returns
RemovedAfter(count, ok) == IF ok THEN count + 1 ELSE count

(* ------------------------------ actions -------------------------------- *)

\* main.py:32-59 and 269-272
ValidateEnvironment ==
  /\ pc = "start"
  /\ \E env \in Environments :
       /\ missing_vars' = RequiredVars \ env
       /\ IF missing_vars' # {}
          THEN pc' = "exit" /\ exit_code' = 1
          ELSE pc' = "zoho_connect" /\ exit_code' = exit_code
  /\ UNCHANGED <<remote, hostForwarders, second_run, user_emails, zoho_emails, domains,
                 forwarders, listed, expected_forwarders, added_count, skipped_count,
                 removed_count, add_done, remove_done, calls, skipped_dests, synced,
                 host0, prev>>

\* main.py:64-69, zoho.py:46 (_authenticate)
ZohoConnect ==
  /\ pc = "zoho_connect"
  /\ \E ok \in BOOLEAN :
       /\ calls' = Append(calls, ReadCall("zoho_auth", <<>>, ok))
       /\ pc' = IF ok THEN "zoho_users" ELSE ZohoFailurePc
       /\ exit_code' = ExitCodeAt(pc', 1)
  /\ UNCHANGED <<remote, hostForwarders, second_run, missing_vars, user_emails, zoho_emails,
                 domains, forwarders, listed, expected_forwarders, added_count,
                 skipped_count, removed_count, add_done, remove_done, skipped_dests,
                 synced, host0, prev>>

\* main.py:71-73, zoho.py:139-183
GetUserEmails ==
  /\ pc = "zoho_users"
  /\ \E ok \in BOOLEAN :
       /\ calls' = Append(calls, ReadCall("get_user_emails", <<>>, ok))
       /\ user_emails' = IF ok THEN NormalizeAll(zohoUsers) ELSE user_emails
       /\ pc' = IF ok THEN "zoho_groups" ELSE ZohoFailurePc
       /\ exit_code' = ExitCodeAt(pc', 1)
  /\ UNCHANGED <<remote, hostForwarders, second_run, missing_vars, zoho_emails,
                 domains, forwarders, listed, expected_forwarders, added_count,
                 skipped_count, removed_count, add_done, remove_done, skipped_dests,
                 synced, host0, prev>>

\* main.py:75-82 and 249-252, zoho.py:185-241
GetGroupEmails ==
  /\ pc = "zoho_groups"
  /\ \E ok \in BOOLEAN :
       /\ calls' = Append(calls, ReadCall("get_group_emails", <<>>, ok))
       /\ IF ok
          THEN /\ zoho_emails' = user_emails \cup NormalizeAll(zohoGroups)
               /\ pc' = IF NoEmails(zoho_emails') THEN "exit" ELSE "mx_domains"
               /\ exit_code' = ExitCodeAt(pc', 0)
          ELSE /\ zoho_emails' = zoho_emails
               /\ pc' = ZohoFailurePc
               /\ exit_code' = ExitCodeAt(pc', 1)
  /\ UNCHANGED <<remote, hostForwarders, second_run, missing_vars, user_emails,
                 domains, forwarders, listed, expected_forwarders, added_count,
                 skipped_count, removed_count, add_done, remove_done, skipped_dests,
                 synced, host0, prev>>

\* main.py:91-100, mxroute.py:78-105
ListDomains ==
  /\ pc = "mx_domains"
  /\ \E ok \in BOOLEAN :
       /\ calls' = Append(calls, ReadCall("list_domains", <<>>, ok))
       /\ domains' = IF ok THEN hostDomains ELSE domains
       /\ pc' = IF ok THEN "mx_forwarders" ELSE MxFailurePc
       /\ exit_code' = ExitCodeAt(pc', 1)
  /\ UNCHANGED <<remote, hostForwarders, second_run, missing_vars, user_emails, zoho_emails,
                 forwarders, listed, expected_forwarders, added_count,
                 skipped_count, removed_count, add_done, remove_done, skipped_dests,
                 synced, host0, prev>>

\* main.py:104-111, mxroute.py:107-134: one iteration of the listing loop
ListForwarders ==
  /\ pc = "mx_forwarders"
  /\ \E domain \in domains \ listed : \E ok \in BOOLEAN :
       /\ calls' = Append(calls, ReadCall("list_forwarders", domain, ok))
       /\ forwarders' = IF ok THEN forwarders \cup HostList(hostForwarders, domain)
                        ELSE forwarders
       /\ listed' = listed \cup {domain}
  /\ UNCHANGED <<remote, hostForwarders, pc, second_run, missing_vars, user_emails,
                 zoho_emails, domains, expected_forwarders, added_count,
                 skipped_count, removed_count, add_done, remove_done, exit_code,
                 skipped_dests, synced, host0, prev>>

\* main.py:113-114, 255-258 and 150-163
SyncStart ==
  /\ pc = "mx_forwarders"
  /\ ListingDone(listed, domains)
  /\ IF NoDomains(domains)
     THEN /\ pc' = "exit"
          /\ exit_code' = 0
          /\ UNCHANGED expected_forwarders
     ELSE /\ expected_forwarders' = create_expected_forwarders(zoho_emails, domains)
          /\ pc' = AfterListing(zoho_emails, forwarders)
          /\ exit_code' = exit_code
  /\ UNCHANGED <<remote, hostForwarders, second_run, missing_vars, user_emails, zoho_emails,
                 domains, forwarders, listed, added_count, skipped_count, removed_count,
                 add_done, remove_done, calls, skipped_dests, synced, host0, prev>>

\* main.py:167-193: one iteration of the loop that adds missing forwarders
AddForwarderStep ==
  /\ pc = "adding"
  /\ \E zoho_email \in zoho_emails \ add_done :
       LET done == add_done \cup {zoho_email}
           next == IF done = zoho_emails THEN AfterAdding(forwarders) ELSE "adding"
           p    == SplitOnce(zoho_email)
           user == p[1]
           domain == p[2]
           dest == Translate(user, domain)
       IN /\ add_done' = done
          /\ IF ~HasAt(zoho_email) \/ ~AddEligible(domain, domains)
             THEN /\ pc' = next
                  /\ UNCHANGED <<hostForwarders, added_count, skipped_count, calls,
                                 skipped_dests>>
             ELSE IF NeedsAdd(dest, forwarders)
             THEN \E ok \in AddOutcomes(hostForwarders, domain, user, dest) :
                    /\ calls' = Append(calls, Call("add_forwarder", domain, user, dest,
                                                   zoho_email, ok))
                    /\ hostForwarders' = IF ok THEN HostAdd(hostForwarders, domain, user, dest)
                                         ELSE hostForwarders
                    /\ added_count' = AddedAfter(added_count, ok)
                    /\ pc' = IF ok THEN next ELSE AfterAddFailure(next)
                    /\ UNCHANGED <<skipped_count, skipped_dests>>
             ELSE /\ skipped_count' = skipped_count + 1
                  /\ skipped_dests' = skipped_dests \cup {dest}
                  /\ pc' = next
                  /\ UNCHANGED <<hostForwarders, added_count, calls>>
  /\ UNCHANGED <<remote, second_run, missing_vars, user_emails, zoho_emails, domains,
                 forwarders, listed, expected_forwarders, removed_count, remove_done,
                 exit_code, synced, host0, prev>>

\* main.py:197-215: one iteration of the loop that removes obsolete forwarders
RemoveForwarderStep ==
  /\ pc = "removing"
  /\ \E forwarder \in forwarders \ remove_done :
       LET done == remove_done \cup {forwarder}
           next == IF done = forwarders THEN "summary" ELSE "removing"
           parts == ReverseParts(forwarder)
       IN /\ remove_done' = done
          /\ IF IsObsolete(forwarder, expected_forwarders) /\ PartsOk(parts)
             THEN LET original_user == parts[1]
                      original_domain == parts[2]
                  IN \E ok \in DeleteOutcomes(hostForwarders, original_domain, original_user) :
                       /\ calls' = Append(calls, Call("delete_forwarder", original_domain,
                                                      original_user, <<>>, forwarder, ok))
                       /\ hostForwarders' =
                            IF ok THEN HostDelete(hostForwarders, original_domain, original_user)
                            ELSE hostForwarders
                       /\ removed_count' = RemovedAfter(removed_count, ok)
                       /\ pc' = IF ok THEN next ELSE AfterDeleteFailure(next)
             ELSE /\ pc' = next
                  /\ UNCHANGED <<hostForwarders, removed_count, calls>>
  /\ UNCHANGED <<remote, second_run, missing_vars, user_emails, zoho_emails, domains,
                 forwarders, listed, expected_forwarders, added_count, skipped_count,
                 add_done, exit_code, skipped_dests, synced, host0, prev>>

\* main.py:217 and 261-267: sync_forwarders returns its counters, main reports them
PrintSummary ==
  /\ pc = "summary"
  /\ synced' = TRUE
  /\ pc' = "exit"
  /\ exit_code' = 0
  /\ UNCHANGED <<remote, hostForwarders, second_run, missing_vars, user_emails, zoho_emails,
                 domains, forwarders, listed, expected_forwarders, added_count,
                 skipped_count, removed_count, add_done, remove_done, calls,
                 skipped_dests, host0, prev>>

\* the program is invoked once more; nothing of the first invocation is kept (main.py:240-247)
StartSecondRun ==
  /\ pc = "exit"
  /\ ~second_run
  /\ second_run' = TRUE
  /\ prev' = [ran |-> TRUE, synced |-> synced,
              failed |-> \E i \in 1..Len(calls) : ~calls[i].ok,
              emails |-> zoho_emails, domains |-> domains]
  /\ host0' = hostForwarders
  /\ pc' = "start"
  /\ missing_vars' = {}
  /\ user_emails' = {}
  /\ zoho_emails' = {}
  /\ domains' = {}
  /\ forwarders' = {}
  /\ listed' = {}
  /\ expected_forwarders' = {}
  /\ added_count' = 0
  /\ skipped_count' = 0
  /\ removed_count' = 0
  /\ add_done' = {}
  /\ remove_done' = {}
  /\ exit_code' = -1
  /\ calls' = <<>>
  /\ skipped_dests' = {}
  /\ synced' = FALSE
  /\ UNCHANGED <<remote, hostForwarders>>

\* one invocation of main()
Next ==
  \/ ValidateEnvironment
  \/ ZohoConnect
  \/ GetUserEmails
  \/ GetGroupEmails
  \/ ListDomains
  \/ ListForwarders
  \/ SyncStart
  \/ AddForwarderStep
  \/ RemoveForwarderStep
  \/ PrintSummary

Spec == Init /\ [][Next]_vars

\* main() runs sequentially: a started invocation is never suspended
FairSpec == Spec /\ WF_vars(Next)

\* an invocation, followed by a second one
TwoRunsNext ==
  \/ Next
  \/ StartSecondRun

TwoRuns == Init /\ [][TwoRunsNext]_vars

TypeOK ==
  /\ pc \in {"start", "zoho_connect", "zoho_users", "zoho_groups", "mx_domains",
             "mx_forwarders", "adding", "removing", "summary", "exit"}
  /\ exit_code \in {-1, 0, 1}
  /\ (pc = "exit") = (exit_code # -1)
  /\ UniqueKeys(hostForwarders)

(* ------------------------- vocabulary of the claims -------------------- *)

CallsOf(op) == {i \in 1..Len(calls) : calls[i].op = op}

\* destinations a create call was issued for
CreateDests == {calls[i].email : i \in CallsOf("add_forwarder")}

\* existing forwarders a delete call was issued for
DeleteSources == {calls[i].src : i \in CallsOf("delete_forwarder")}

NoMutation == CallsOf("add_forwarder") = {} /\ CallsOf("delete_forwarder") = {}

\* sync_forwarders has computed expected_forwarders in this invocation
InSync == pc \in {"adding", "removing", "summary"} \/ synced

\* the pairs <<mailbox, position of its first '@'>> of D
FirstAtPairs(D) ==
  {q \in UNION {{<<m, i>> : i \in 1..Len(m)} : m \in D} :
     /\ q[1][q[2]] = "@"
     /\ \A j \in 1..(q[2] - 1) : q[1][j] # "@"}

UserOf(q) == SubSeq(q[1], 1, q[2] - 1)

DomainOf(q) == SubSeq(q[1], q[2] + 1, Len(q[1]))

\* { user@zoho.domain : user@domain in D and domain in H }
TranslationsOfEligible(D, H) ==
  {UserOf(q) \o <<"@", "z", "o", "h", "o", ".">> \o DomainOf(q) :
     q \in {r \in FirstAtPairs(D) : DomainOf(r) \in H}}

\* the existing forwarders that carry the marker and are not expected
ManagedObsolete(existing, expected) ==
  {f \in existing : Contains(f, <<"@", "z", "o", "h", "o", ".">>) /\ f \notin expected}

(* ------------------------------- C1 ------------------------------------ *)

\* C1: create_expected_forwarders(D, H) is exactly the set of the translations
\* user@zoho.domain of the mailboxes user@domain of D whose domain, the text after
\* the first '@', is in H.
C1_ExpectedIsTranslationOfEligible ==
  InSync => expected_forwarders = TranslationsOfEligible(zoho_emails, domains)

C1_Witness ==
  /\ InSync
  /\ expected_forwarders # {}
  /\ \E q \in FirstAtPairs(zoho_emails) : DomainOf(q) \notin domains

(* ------------------------------- C2 ------------------------------------ *)

\* C2: when sync_forwarders has returned, the destinations a create call was issued
\* for are Expected \ E, the destinations counted as skipped are Expected \cap E and
\* the existing forwarders a delete call was issued for are those of E that contain
\* '@zoho.' and are not in Expected, Expected being create_expected_forwarders(D, H).
C2_PlanIsTheDiff ==
  synced =>
    LET Expected == create_expected_forwarders(zoho_emails, domains)
    IN /\ CreateDests = Expected \ forwarders
       /\ skipped_dests = Expected \cap forwarders
       /\ DeleteSources = ManagedObsolete(forwarders, Expected)

C2_Witness ==
  /\ synced
  /\ CreateDests # {}
  /\ skipped_dests # {}
  /\ DeleteSources # {}

(* ------------------------------- C3 ------------------------------------ *)

AnyCallFailed == \E i \in 1..Len(calls) : ~calls[i].ok

\* C3: a second run over the same directory mailboxes and hosted domains, the
\* host's forwarders having been changed by the first run's own calls only,
\* reports added = 0 and removed = 0.  Stated for the runs in which no call of
\* either run failed, the case most favourable to the program.
C3_SecondRunAddsAndRemovesNothing ==
  (/\ second_run /\ synced /\ prev.synced
   /\ prev.emails = zoho_emails /\ prev.domains = domains
   /\ ~prev.failed /\ ~AnyCallFailed)
  => (added_count = 0 /\ removed_count = 0)

(* ------------------------------- C4 ------------------------------------ *)

\* C4: no delete call is issued for an existing forwarder whose destination does
\* not contain '@zoho.', and every such forwarder the host held when the run
\* started is still on the host.
C4_UnmanagedUntouched ==
  /\ \A f \in DeleteSources : Contains(f, Marker)
  /\ \A r \in host0 : ~Contains(r.email, Marker) => r \in hostForwarders

(* ------------------------------- C5 ------------------------------------ *)

\* the mailboxes of D whose domain is not hosted, with the position of their first '@'
Ineligible(D, H) == {q \in FirstAtPairs(D) : DomainOf(q) \notin H}

CreateSources == {calls[i].src : i \in CallsOf("add_forwarder")}

\* C5 as claimed: a mailbox whose domain is not hosted appears neither as it is nor
\* translated in the expected set, and no create call is issued for it.
C5_IneligibleNeverAppears ==
  InSync =>
    \A q \in Ineligible(zoho_emails, domains) :
      /\ q[1] \notin expected_forwarders
      /\ Translate(UserOf(q), DomainOf(q)) \notin expected_forwarders
      /\ q[1] \notin CreateSources

\* C5 as amended: the translation of a mailbox whose domain is not hosted is never
\* in the expected set and no create call is issued for it; its own address is in
\* the expected set only as the translation of another mailbox, whose domain is hosted.
C5_IneligibleNeverTranslated ==
  InSync =>
    \A q \in Ineligible(zoho_emails, domains) :
      /\ Translate(UserOf(q), DomainOf(q)) \notin expected_forwarders
      /\ q[1] \notin CreateSources
      /\ \A i \in CallsOf("add_forwarder") :
           ~(calls[i].domain = DomainOf(q) /\ calls[i].user = UserOf(q))
      /\ q[1] \in expected_forwarders =>
           \E e \in FirstAtPairs(zoho_emails) :
             /\ e[1] # q[1]
             /\ DomainOf(e) \in domains
             /\ Translate(UserOf(e), DomainOf(e)) = q[1]

C5_Witness ==
  /\ synced
  /\ \E q \in Ineligible(zoho_emails, domains) : q[1] \in expected_forwarders
  /\ \E q \in Ineligible(zoho_emails, domains) : q[1] \notin expected_forwarders
  /\ CreateDests # {}

(* ------------------------------- C6 ------------------------------------ *)

NonEmptyParts(parts) == {i \in 1..Len(parts) : parts[i] # <<>>}

\* C6: a removal candidate whose reverse mapping does not yield two non-empty parts
\* is skipped: no delete_forwarder call is made for it, none is made with an empty
\* user or an empty domain, it stays on the host and is not counted in removed.
C6_MalformedCandidateSkipped ==
  \A i \in CallsOf("delete_forwarder") :
    /\ Cardinality(NonEmptyParts(ReverseParts(calls[i].src))) >= 2
    /\ calls[i].user # <<>>
    /\ calls[i].domain # <<>>

(* ------------------------------- C7 ------------------------------------ *)

\* C7: at every moment of a run the destinations created, the destinations skipped
\* and the forwarders selected for deletion are pairwise disjoint, the created ones
\* lie in Expected \ Existing and the ones selected for deletion in Existing \ Expected.
C7_PlanSetsDisjoint ==
  /\ CreateDests \cap skipped_dests = {}
  /\ CreateDests \cap DeleteSources = {}
  /\ skipped_dests \cap DeleteSources = {}
  /\ CreateDests \subseteq expected_forwarders \ forwarders
  /\ DeleteSources \subseteq forwarders \ expected_forwarders

C7_Witness ==
  /\ pc = "removing"
  /\ CreateDests # {}
  /\ skipped_dests # {}
  /\ DeleteSources # {}
  /\ \E f \in forwarders \ remove_done : f \in expected_forwarders

(* ------------------------------- C8 ------------------------------------ *)

AttemptsToCreate(dest) ==
  Cardinality({i \in CallsOf("add_forwarder") : calls[i].email = dest})

AttemptsToDelete(f) ==
  Cardinality({i \in CallsOf("delete_forwarder") : calls[i].src = f})

\* items the two loops of sync_forwarders have still to visit
Remaining ==
  Cardinality(zoho_emails \ add_done) + Cardinality(forwarders \ remove_done)

InLoops == pc \in {"adding", "removing"}

\* C8: whichever create and delete calls fail, a run inside sync_forwarders never
\* takes an error exit; while it is in a loop an item is left for the loop to visit,
\* and every step of a loop visits one more item and stays in sync_forwarders, so
\* the run reaches the return after at most Remaining steps; and at the return exactly one create attempt has been made for
\* every destination of Expected \ Existing and exactly one delete attempt for
\* every managed existing forwarder that is not expected.
C8_FailureIsolation ==
  /\ [](InSync => exit_code # 1)
  /\ [](/\ pc = "adding" => zoho_emails \ add_done # {}
        /\ pc = "removing" => forwarders \ remove_done # {})
  /\ [][InLoops => (Remaining' < Remaining /\ (InLoops' \/ pc' = "summary"))]_vars
  /\ [][pc = "summary" => synced']_vars
  /\ [](pc = "summary" \/ synced =>
          /\ \A d \in expected_forwarders \ forwarders : AttemptsToCreate(d) = 1
          /\ \A f \in ManagedObsolete(forwarders, expected_forwarders) :
               AttemptsToDelete(f) = 1)

\* C8 in temporal form, under FairSpec: a run in the loops reaches the return
C8_LoopsReachReturn == InLoops ~> synced

C8_Witness ==
  /\ synced
  /\ \E i \in CallsOf("add_forwarder") : ~calls[i].ok
  /\ \E i \in CallsOf("add_forwarder") : calls[i].ok
  /\ \E i \in CallsOf("delete_forwarder") : ~calls[i].ok
  /\ \E i \in CallsOf("delete_forwarder") : calls[i].ok
  /\ calls[Len(calls)].ok

(* ------------------------------- C9 ------------------------------------ *)

Fetched(op) == \E i \in CallsOf(op) : calls[i].ok

\* C9: once the mailbox set has been fetched empty, or the domain set has been
\* fetched empty, the run issues no create and no delete call, leaves the host's
\* forwarders as they were and ends with exit code 0.
C9_EmptyInputIsNoOp ==
  /\ (Fetched("get_group_emails") /\ zoho_emails = {}) =>
        /\ pc = "exit" /\ exit_code = 0
        /\ NoMutation /\ hostForwarders = host0
  /\ (Fetched("list_domains") /\ domains = {}) =>
        /\ pc \in {"mx_forwarders", "exit"} /\ exit_code \in {-1, 0}
        /\ NoMutation /\ hostForwarders = host0

C9_Witness ==
  /\ pc = "exit"
  /\ Fetched("get_group_emails")
  /\ zoho_emails = {}
  /\ \E r \in hostForwarders : Contains(r.email, Marker)

(* ------------------------------- C10 ----------------------------------- *)

BulkOps == {"zoho_auth", "get_user_emails", "get_group_emails", "list_domains"}

BulkFailed == \E i \in 1..Len(calls) : calls[i].op \in BulkOps /\ ~calls[i].ok

\* C10: with a required configuration value missing the run has ended with exit
\* code 1 and has made no call on either client; once authentication or a bulk
\* fetch has failed the run has ended with exit code 1 and no create or delete
\* call has been issued.
C10_FatalBeforeMutation ==
  /\ missing_vars # {} => (calls = <<>> /\ pc = "exit" /\ exit_code = 1)
  /\ BulkFailed => (pc = "exit" /\ exit_code = 1 /\ NoMutation)

C10_Witness ==
  /\ pc = "exit"
  /\ exit_code = 1
  /\ \E i \in CallsOf("list_domains") : ~calls[i].ok
  /\ zoho_emails # {}

(* ------------------------------- C11 ----------------------------------- *)

AtCount(m) == Cardinality({i \in 1..Len(m) : m[i] = "@"})

\* exactly one '@', with a non-empty local part before it and a non-empty domain after it
WellFormed(m) == AtCount(m) = 1 /\ m[1] # "@" /\ m[Len(m)] # "@"

\* C11: a directory address that is not one '@' between a non-empty local part and
\* a non-empty domain contributes no element to the expected set, causes no create
\* call and does not make the run exit with an error.
C11_MalformedAddressRejected ==
  InSync =>
    \A q \in FirstAtPairs(zoho_emails) :
      ~WellFormed(q[1]) =>
        /\ Translate(UserOf(q), DomainOf(q)) \notin expected_forwarders
        /\ q[1] \notin CreateSources
        /\ exit_code # 1

(* ------------------------------- C12 ----------------------------------- *)

ReadOps == {"zoho_auth", "get_user_emails", "get_group_emails", "list_domains",
            "list_forwarders"}

MutatingOps == {"add_forwarder", "delete_forwarder"}

\* C12: in the order of the calls of a run no read follows a create or a delete and
\* no create follows a delete; and when the first create or delete is issued the
\* user mailboxes, the group mailboxes and the hosted domains have been fetched and
\* the forwarders of every hosted domain have been asked for.
C12_ReadsThenCreatesThenDeletes ==
  /\ \A i \in 1..Len(calls) : \A j \in (i + 1)..Len(calls) :
       /\ ~(calls[i].op \in MutatingOps /\ calls[j].op \in ReadOps)
       /\ ~(calls[i].op = "delete_forwarder" /\ calls[j].op = "add_forwarder")
  /\ ~NoMutation =>
       /\ Fetched("get_user_emails")
       /\ Fetched("get_group_emails")
       /\ Fetched("list_domains")
       /\ domains = hostDomains
       /\ \A d \in hostDomains : \E i \in CallsOf("list_forwarders") : calls[i].domain = d

C12_Witness ==
  /\ synced
  /\ Cardinality(CallsOf("list_forwarders")) = 2
  /\ \E i \in CallsOf("list_forwarders") : ~calls[i].ok
  /\ Cardinality(CallsOf("add_forwarder")) >= 2
  /\ CallsOf("delete_forwarder") # {}

(* ------------------------------- C13 ----------------------------------- *)

Succeeded(op) == {i \in CallsOf(op) : calls[i].ok}

Failed(op) == {i \in CallsOf(op) : ~calls[i].ok}

\* C13: at every moment added is the number of create calls that succeeded and
\* removed the number of delete calls that succeeded, so that a failed call
\* increments neither; when sync_forwarders has returned, skipped is the size of
\* Expected \cap Existing, added + skipped + the failed creates is the size of the
\* expected set and removed + the failed deletes is the size of the remove set.
C13_CountersMatchCalls ==
  /\ added_count = Cardinality(Succeeded("add_forwarder"))
  /\ removed_count = Cardinality(Succeeded("delete_forwarder"))
  /\ skipped_count = Cardinality(skipped_dests)
  /\ synced =>
       /\ skipped_count = Cardinality(expected_forwarders \cap forwarders)
       /\ added_count + skipped_count + Cardinality(Failed("add_forwarder"))
            = Cardinality(expected_forwarders)
       /\ removed_count + Cardinality(Failed("delete_forwarder"))
            = Cardinality(ManagedObsolete(forwarders, expected_forwarders))

C13_Witness ==
  /\ synced
  /\ added_count >= 1
  /\ skipped_count >= 1
  /\ Failed("add_forwarder") # {}
  /\ Failed("delete_forwarder") # {}

(* ------------------------------- C14 ----------------------------------- *)

\* local parts and domains without '@', some of them holding the text of the marker
LocalParts ==
  { <<"a">>, <<"b">>, <<"z", "o", "h", "o">>, <<"a", ".", "z", "o", "h", "o", ".">> }

DomainParts ==
  { <<"x">>, <<"y">>, <<"x", ".", "y">>, <<"z", "o", "h", "o", ".", "x">> }

\* the reverse mapping of the translation of user@domain gives back user and domain
RoundTrip(user, domain) ==
  LET parts == ReverseParts(Translate(user, domain))
  IN PartsOk(parts) /\ parts = <<user, domain>>

RoundTripOnParts ==
  /\ \A u \in LocalParts : \A d \in DomainParts : RoundTrip(u, d)
  /\ \A u1 \in LocalParts : \A d1 \in DomainParts :
       \A u2 \in LocalParts : \A d2 \in DomainParts :
         Translate(u1, d1) = Translate(u2, d2) => (u1 = u2 /\ d1 = d2)

\* C14: for a mailbox with exactly one '@' and non-empty user and domain the reverse
\* mapping used for deletion, applied to its translated destination, recovers
\* exactly the user and the domain, so that it yields the (domain, user) pair the
\* create call was given; and two distinct mailboxes never translate to the same
\* destination.
C14_ReverseOfTranslation ==
  /\ RoundTripOnParts
  /\ \A i \in CallsOf("add_forwarder") :
       WellFormed(calls[i].src) =>
         LET parts == ReverseParts(calls[i].email)
         IN /\ PartsOk(parts) /\ Len(parts) = 2
            /\ parts[1] = calls[i].user
            /\ parts[2] = calls[i].domain
  /\ \A q1 \in FirstAtPairs(zoho_emails) : \A q2 \in FirstAtPairs(zoho_emails) :
       Translate(UserOf(q1), DomainOf(q1)) = Translate(UserOf(q2), DomainOf(q2))
         => q1[1] = q2[1]

C14_Witness ==
  /\ pc = "adding"
  /\ Cardinality(zoho_emails) >= 2
  /\ \E i \in CallsOf("add_forwarder") :
       /\ calls[i].ok
       /\ WellFormed(calls[i].src)
       /\ [domain |-> calls[i].domain, user |-> calls[i].user, email |-> calls[i].email]
            \in hostForwarders

(* ------------------------------- C15 ----------------------------------- *)

\* the mailboxes of D whose domain is hosted, with the position of their first '@'
Eligible(D, H) == {q \in FirstAtPairs(D) : DomainOf(q) \in H}

\* C15: no delete call targets the (domain, user) pair of an eligible directory
\* mailbox, whatever strings the existing forwarder set holds.
C15_DeleteNeverTargetsExpectedIdentity ==
  \A i \in CallsOf("delete_forwarder") :
    \A q \in Eligible(zoho_emails, domains) :
      ~(calls[i].domain = DomainOf(q) /\ calls[i].user = UserOf(q))

====
